---- MODULE Spec2Model ----
(***************************************************************************)
(* ifc4enlistment: rewrites the source-file paths stored in the            *)
(* "name.source-file" partition of IFC containers from enlistment-relative *)
(* form (SRC_PARENTsrc\<project>\public\...) to cache-relative form        *)
(* (ICACHECUR\<project>\src\public\...) and recomputes the SHA-256 content *)
(* hash stored in the header.                                              *)
(*                                                                         *)
(* Strings are sequences of one-character strings.  Indices handed to the  *)
(* std::string operations are 0-based, as in the source, and size_t        *)
(* arithmetic wraps modulo SizeModulus.                                    *)
(***************************************************************************)
EXTENDS Integers, Sequences, FiniteSets, TLC

VARIABLES
    args,          \* Arguments::files, the command line's file list
    disk,          \* file name -> container bytes on disk, or NoFile
    fileIdx,       \* position of main's range-for in args (1-based)
    pc,            \* where main / process_ifc stands
    views,         \* views returned by MapViewOfFile and not unmapped
    sourceFiles,   \* the record array read from the partition
    recIdx,        \* position of process_ifc's range-for in sourceFiles
    exitCode,      \* main's return value, meaningful once pc = "done"
    diagnostic,    \* the exception that reached main's catch, "" if none
    stderr,        \* what translate_exception printed, "" if nothing
    passLog,       \* per argument: what its call of process_ifc did
    sourceFileStr, \* rewrite-rule run: the resolved string
    setArg,        \* rewrite-rule run: what was passed to set, or NotSet
    rulePc         \* rewrite-rule run: position

vars == <<args, disk, fileIdx, pc, views, sourceFiles, recIdx, exitCode,
          diagnostic, stderr, passLog, sourceFileStr, setArg, rulePc>>

driverVars == <<args, disk, fileIdx, pc, views, sourceFiles, recIdx, exitCode,
                diagnostic, stderr, passLog>>

ruleVars == <<sourceFileStr, setArg, rulePc>>

----------------------------------------------------------------------------
(* Bounds *)

MaxArgs == 2

MaxRecords == 2

MaxPieces == 4

----------------------------------------------------------------------------
(* std::string / std::string_view operations *)

SizeModulus == 2 ^ 16

npos == SizeModulus - 1

SizeSub(a, b) == (a - b) % SizeModulus

Min(a, b) == IF a < b THEN a ELSE b

MatchAt(s, p, k) ==
    /\ k + Len(p) <= Len(s)
    /\ \A n \in 1..Len(p) : s[k + n] = p[n]

(* the root-prefix test left out *)
starts_with_always(s, p) == TRUE

starts_with(s, p) == MatchAt(s, p, 0)

find(s, p) ==
    IF \E k \in 0..Len(s) : MatchAt(s, p, k)
    THEN CHOOSE k \in 0..Len(s) :
            /\ MatchAt(s, p, k)
            /\ \A m \in 0..(k - 1) : ~MatchAt(s, p, m)
    ELSE npos

substr(s, pos, count) == SubSeq(s, pos + 1, pos + Min(count, Len(s) - pos))

(* std::string::insert in place of replace: nothing is overwritten *)
replace_insert(s, pos, count, r) ==
    SubSeq(s, 1, pos) \o r \o SubSeq(s, pos + 1, Len(s))

replace(s, pos, count, r) ==
    SubSeq(s, 1, pos) \o r \o SubSeq(s, pos + Min(count, Len(s) - pos) + 1, Len(s))

----------------------------------------------------------------------------
(* The rewrite rule's fragments *)

srcrootPrefix == <<"S", "R", "C", "_", "P", "A", "R", "E", "N", "T", "s", "r", "c", "\\">>

publicPath == <<"\\", "p", "u", "b", "l", "i", "c", "\\">>

icachePrefix == <<"I", "C", "A", "C", "H", "E", "C", "U", "R", "\\">>

icacheSuffix == <<"\\", "s", "r", "c">>

sourceFilePartitionName == "name.source-file"

pathSeparator == <<"\\">>

NotSet == <<"<not set>">>

(* projectName[pathSep] = '_' when a separator was found *)
ReplaceFirstSep(projectName) ==
    LET pathSep == find(projectName, pathSeparator)
    IN  IF pathSep # npos
        THEN [projectName EXCEPT ![pathSep + 1] = "_"]
        ELSE projectName

(* The body of the loop for one resolved string: the string handed to      *)
(* ifcFile.set, or NotSet when set is not called.                          *)
RewritePath(str) ==
    IF starts_with(str, srcrootPrefix)
    THEN LET idx == find(str, publicPath)
         IN  IF idx # npos
             THEN LET projectName ==
                          ReplaceFirstSep(substr(str, Len(srcrootPrefix),
                                                 SizeSub(idx, Len(srcrootPrefix))))
                      replacement == icachePrefix \o projectName \o icacheSuffix
                  IN  replace(str, 0, Len(replacement), replacement)
             ELSE NotSet
    ELSE NotSet

----------------------------------------------------------------------------
(* Containers *)

FileIds == {"a.ifc", "b.ifc"}

TextOffsets == {1, 2}

BadOffset == Cardinality(TextOffsets) + 1

NameRefs == {0} \cup TextOffsets \cup {BadOffset}

(* SHA-256 over the bytes after the header's hash field, taken to be       *)
(* collision free: the digest determines the bytes.                        *)
hash_bytes(body) == <<"sha256", body>>

Body(c) == [partitions |-> c.partitions, strings |-> c.strings]

generate_content_hash(c) == hash_bytes(Body(c))

(* the comparison's result ignored *)
validate_content_integrity_skipped(c) == TRUE

validate_content_integrity(c) == c.digest = generate_content_hash(c)

(* the digest computed but not stored *)
reset_content_hash_noop(c) == c

reset_content_hash(c) == [c EXCEPT !.digest = generate_content_hash(c)]

(* std::find_if over the partition table: index of the first entry whose   *)
(* name is "name.source-file", 0 for end(partitionTable).                  *)
FindPartition(c) ==
    IF \E k \in 1..Len(c.partitions) : c.partitions[k].name = sourceFilePartitionName
    THEN CHOOSE k \in 1..Len(c.partitions) :
            /\ c.partitions[k].name = sourceFilePartitionName
            /\ \A m \in 1..(k - 1) : c.partitions[m].name # sourceFilePartitionName
    ELSE 0

(* InputIfc::set: overwrite the referenced string in place, within the     *)
(* bytes the string already occupies.                                      *)
set(c, name, value) ==
    [c EXCEPT !.strings[name] = SubSeq(value, 1, Min(Len(value), Len(c.strings[name])))]

(* InputIfc::get: the referenced string; an offset outside the string      *)
(* table does not resolve.                                                 *)
Resolves(c, name) == name \in DOMAIN c.strings

get(c, name) == c.strings[name]

(* InputIfc::validate<UnitSort::Primary> with Architecture::Unknown (which *)
(* accepts every architecture) and IfcOptions::IntegrityCheck.             *)
validate(c) ==
    IF validate_content_integrity(c) THEN "ok" ELSE "IntegrityCheckFailed"

----------------------------------------------------------------------------
(* Inputs *)

RECURSIVE Concat(_)
Concat(ps) == IF ps = <<>> THEN <<>> ELSE Head(ps) \o Concat(Tail(ps))

publicNoSep == <<"p", "u", "b", "l", "i", "c", "\\">>

PathPieces ==
    {srcrootPrefix, publicPath, publicNoSep, <<"a">>, <<"\\">>,
     <<"a", "\\", "b", "\\", "c">>}

Paths == {Concat(ps) : ps \in UNION {[1..n -> PathPieces] : n \in 0..MaxPieces}}

(* Strings the containers of a run hold: a path the rule rewrites, a path  *)
(* outside the enlistment, and a path whose marker starts on the root      *)
(* prefix's last separator.                                                *)
DriverPaths ==
    {Concat(<<srcrootPrefix, <<"a", "\\", "b", "\\", "c">>, publicPath, <<"a">>>>),
     Concat(<<<<"a", "\\", "b", "\\", "c">>, publicPath, <<"a">>>>),
     Concat(<<srcrootPrefix, publicNoSep, <<"a">>>>)}

RecordArrays == UNION {[1..n -> NameRefs] : n \in 0..MaxRecords}

ArgLists == UNION {[1..n -> FileIds] : n \in 1..MaxArgs}

EmptyStrings == [o \in TextOffsets |-> <<>>]

NoFile == [exists |-> FALSE, digest |-> hash_bytes([partitions |-> <<>>, strings |-> EmptyStrings]),
           partitions |-> <<>>, strings |-> EmptyStrings]

StaleDigest == NoFile.digest

otherPartition == [name |-> "name.other", records |-> <<>>]

FileKinds == {"missing", "stale", "stale-nopartition", "nopartition", "valid"}

MakeFile(kind, strings, records) ==
    IF kind = "missing" THEN NoFile
    ELSE LET table == IF kind \in {"nopartition", "stale-nopartition"}
                      THEN <<otherPartition>>
                      ELSE <<otherPartition,
                             [name |-> sourceFilePartitionName, records |-> records]>>
             c == [exists |-> TRUE, digest |-> StaleDigest,
                   partitions |-> table, strings |-> strings]
         IN  IF kind \in {"stale", "stale-nopartition"}
             THEN c
             ELSE [c EXCEPT !.digest = hash_bytes(Body(c))]

NoPass == [outcome |-> "none", atOpen |-> NoFile, atEnd |-> NoFile, validated |-> FALSE,
           found |-> "unknown", sets |-> <<>>, resets |-> 0, seq |-> 0]

EXIT_SUCCESS == 0

EXIT_FAILURE == 1

----------------------------------------------------------------------------
(* main and process_ifc *)

CurFile == args[fileIdx]

(* translate_exception: the text written to std::cerr for an exception *)
translate_exception(kind) ==
    IF kind = "IfcArchMismatch" THEN "ifc architecture mismatch\n"
    ELSE IF kind = "const char*" THEN "caught: "
    ELSE "unknown exception caught\n"

(* the try block inside main's loop: the failure is reported and the     *)
(* range-for goes on with the next file                                    *)
Throw_continue(kind, entry) ==
    /\ passLog' = [passLog EXCEPT ![fileIdx] =
                      [entry EXCEPT !.outcome = kind, !.atEnd = disk[CurFile]]]
    /\ diagnostic' = kind
    /\ stderr' = translate_exception(kind)
    /\ exitCode' = EXIT_FAILURE
    /\ pc' = "main"
    /\ fileIdx' = fileIdx + 1

(* An exception leaves process_ifc and reaches main's catch (...) *)
Throw(kind, entry) ==
    /\ passLog' = [passLog EXCEPT ![fileIdx] =
                      [entry EXCEPT !.outcome = kind, !.atEnd = disk[CurFile]]]
    /\ diagnostic' = kind
    /\ stderr' = translate_exception(kind)
    /\ exitCode' = EXIT_FAILURE
    /\ pc' = "done"
    /\ UNCHANGED fileIdx

(* process_ifc returns; main's range-for moves to the next file *)
Return(entry) ==
    /\ passLog' = [passLog EXCEPT ![fileIdx] =
                      [entry EXCEPT !.outcome = "ok", !.atEnd = disk[CurFile]]]
    /\ fileIdx' = fileIdx + 1
    /\ pc' = "main"
    /\ UNCHANGED <<diagnostic, stderr, exitCode>>

Step(newPc, entry) ==
    /\ passLog' = [passLog EXCEPT ![fileIdx] = entry]
    /\ pc' = newPc
    /\ UNCHANGED <<fileIdx, diagnostic, stderr, exitCode>>

MemoryMapFile ==
    /\ pc = "main"
    /\ fileIdx <= Len(args)
    /\ LET entry == [passLog[fileIdx] EXCEPT
                        !.outcome = "running", !.atOpen = disk[CurFile],
                        !.seq = Cardinality({k \in DOMAIN passLog :
                                                passLog[k].outcome # "none"}) + 1]
       IN  IF ~disk[CurFile].exists
           THEN /\ Throw("runtime_error", entry)
                /\ UNCHANGED views
           ELSE /\ Step("validate", entry)
                /\ views' = views \cup {fileIdx}
    /\ UNCHANGED <<args, disk, sourceFiles, recIdx, ruleVars>>

Validate ==
    /\ pc = "validate"
    /\ IF validate(disk[CurFile]) # "ok"
       THEN Throw(validate(disk[CurFile]), passLog[fileIdx])
       ELSE Step("lookup", [passLog[fileIdx] EXCEPT !.validated = TRUE])
    /\ UNCHANGED <<args, disk, views, sourceFiles, recIdx, ruleVars>>

(* a missing partition treated as a failure *)
LookupPartition_absent_throws ==
    /\ pc = "lookup"
    /\ IF FindPartition(disk[CurFile]) = 0
       THEN Throw("runtime_error", [passLog[fileIdx] EXCEPT !.found = "absent"])
       ELSE Step("read", [passLog[fileIdx] EXCEPT !.found = "found"])
    /\ UNCHANGED <<args, disk, views, sourceFiles, recIdx, ruleVars>>

LookupPartition ==
    /\ pc = "lookup"
    /\ IF FindPartition(disk[CurFile]) = 0
       THEN Return([passLog[fileIdx] EXCEPT !.found = "absent"])
       ELSE Step("read", [passLog[fileIdx] EXCEPT !.found = "found"])
    /\ UNCHANGED <<args, disk, views, sourceFiles, recIdx, ruleVars>>

ReadArray ==
    /\ pc = "read"
    /\ sourceFiles' = disk[CurFile].partitions[FindPartition(disk[CurFile])].records
    /\ recIdx' = 1
    /\ Step("loop", passLog[fileIdx])
    /\ UNCHANGED <<args, disk, views, ruleVars>>

(* reset_content_hash moved inside the innermost if: the digest is       *)
(* recomputed only for a record whose string was set                      *)
RewriteRecord_reset_on_change ==
    /\ pc = "loop"
    /\ recIdx <= Len(sourceFiles)
    /\ LET name == sourceFiles[recIdx]
           skip == /\ Step("loop", passLog[fileIdx])
                   /\ recIdx' = recIdx + 1
                   /\ UNCHANGED disk
       IN  IF name = 0
           THEN skip
           ELSE IF ~Resolves(disk[CurFile], name)
           THEN /\ Throw("UnresolvedReference", passLog[fileIdx])
                /\ UNCHANGED <<disk, recIdx>>
           ELSE LET rewritten == RewritePath(get(disk[CurFile], name))
                IN  IF rewritten = NotSet
                    THEN skip
                    ELSE /\ disk' = [disk EXCEPT ![CurFile] = set(@, name, rewritten)]
                         /\ Step("reset", [passLog[fileIdx] EXCEPT
                                              !.sets = Append(@, name)])
                         /\ UNCHANGED recIdx
    /\ UNCHANGED <<args, views, sourceFiles, ruleVars>>

(* lines 172-192 for one record: resolve, rewrite, set *)
RewriteRecord ==
    /\ pc = "loop"
    /\ recIdx <= Len(sourceFiles)
    /\ LET name == sourceFiles[recIdx]
       IN  IF name = 0
           THEN /\ Step("reset", passLog[fileIdx])
                /\ UNCHANGED disk
           ELSE IF ~Resolves(disk[CurFile], name)
           THEN /\ Throw("UnresolvedReference", passLog[fileIdx])
                /\ UNCHANGED disk
           ELSE LET rewritten == RewritePath(get(disk[CurFile], name))
                IN  IF rewritten = NotSet
                    THEN /\ Step("reset", passLog[fileIdx])
                         /\ UNCHANGED disk
                    ELSE /\ disk' = [disk EXCEPT ![CurFile] = set(@, name, rewritten)]
                         /\ Step("reset", [passLog[fileIdx] EXCEPT
                                              !.sets = Append(@, name)])
    /\ UNCHANGED <<args, views, sourceFiles, recIdx, ruleVars>>

(* line 193, then the range-for's increment *)
ResetContentHash ==
    /\ pc = "reset"
    /\ disk' = [disk EXCEPT ![CurFile] = reset_content_hash(@)]
    /\ recIdx' = recIdx + 1
    /\ Step("loop", [passLog[fileIdx] EXCEPT !.resets = @ + 1])
    /\ UNCHANGED <<args, views, sourceFiles, ruleVars>>

LoopEnd ==
    /\ pc = "loop"
    /\ recIdx > Len(sourceFiles)
    /\ Return(passLog[fileIdx])
    /\ UNCHANGED <<args, disk, views, sourceFiles, recIdx, ruleVars>>

MainReturn ==
    /\ pc = "main"
    /\ fileIdx > Len(args)
    /\ pc' = "done"
    /\ exitCode' = EXIT_SUCCESS
    /\ UNCHANGED <<args, disk, fileIdx, views, sourceFiles, recIdx, diagnostic,
                   stderr, passLog, ruleVars>>

(* The files of a run hold the same string table and record array and     *)
(* differ in whether they exist, whether the stored digest is current and  *)
(* whether the partition table names "name.source-file".                   *)
Init ==
    /\ args \in ArgLists
    /\ \E strings \in [TextOffsets -> DriverPaths], records \in RecordArrays,
          kind \in [FileIds -> FileKinds] :
          disk = [f \in FileIds |-> MakeFile(kind[f], strings, records)]
    /\ fileIdx = 1
    /\ pc = "main"
    /\ views = {}
    /\ sourceFiles = <<>>
    /\ recIdx = 1
    /\ exitCode = EXIT_SUCCESS
    /\ diagnostic = ""
    /\ stderr = ""
    /\ passLog = [k \in 1..Len(args) |-> NoPass]
    /\ sourceFileStr = <<>>
    /\ setArg = NotSet
    /\ rulePc = "idle"

Next ==
    \/ MemoryMapFile
    \/ Validate
    \/ LookupPartition
    \/ ReadArray
    \/ RewriteRecord
    \/ ResetContentHash
    \/ LoopEnd
    \/ MainReturn

Spec == Init /\ [][Next]_vars

----------------------------------------------------------------------------
(* The rewrite rule on its own: one resolved string, lines 174-191 *)

InitRule ==
    /\ sourceFileStr \in Paths
    /\ setArg = NotSet
    /\ rulePc = "resolved"
    /\ args = <<>>
    /\ disk = [f \in FileIds |-> NoFile]
    /\ fileIdx = 1
    /\ pc = "idle"
    /\ views = {}
    /\ sourceFiles = <<>>
    /\ recIdx = 1
    /\ exitCode = EXIT_SUCCESS
    /\ diagnostic = ""
    /\ stderr = ""
    /\ passLog = <<>>

ApplyRule ==
    /\ rulePc = "resolved"
    /\ setArg' = RewritePath(sourceFileStr)
    /\ rulePc' = "done"
    /\ UNCHANGED <<sourceFileStr, driverVars>>

NextRule == ApplyRule

SpecRule == InitRule /\ [][NextRule]_vars

----------------------------------------------------------------------------
(* Properties *)

Passes == DOMAIN passLog

Started(k) == passLog[k].outcome # "none"

Ended(k) == passLog[k].outcome \notin {"none", "running"}

DigestMatches(c) == c.digest = hash_bytes(Body(c))

HasPrefix(s) == MatchAt(s, srcrootPrefix, 0)

MarkerAt(s, k) == MatchAt(s, publicPath, k)

(* the records of the "name.source-file" partition, <<>> if it is absent *)
RecordsOf(c) ==
    IF \E n \in 1..Len(c.partitions) : c.partitions[n].name = sourceFilePartitionName
    THEN LET n == CHOOSE n \in 1..Len(c.partitions) :
                      c.partitions[n].name = sourceFilePartitionName
         IN  c.partitions[n].records
    ELSE <<>>

HasPartition(c) ==
    \E n \in 1..Len(c.partitions) : c.partitions[n].name = sourceFilePartitionName

(* C1: a file whose stored digest differs from the hash of its body when   *)
(* it is opened ends with IntegrityCheckFailed, before the partition       *)
(* lookup, with no string set, no digest reset and its bytes unchanged.    *)
C1_IntegrityFailureMutatesNothing ==
    \A k \in Passes :
        (Started(k) /\ passLog[k].atOpen.exists /\ ~DigestMatches(passLog[k].atOpen)) =>
            /\ \/ (k = fileIdx /\ pc = "validate")
               \/ /\ passLog[k].outcome = "IntegrityCheckFailed"
                  /\ diagnostic = "IntegrityCheckFailed"
                  /\ pc = "done"
            /\ disk[args[k]] = passLog[k].atOpen
            /\ passLog[k].found = "unknown"
            /\ passLog[k].sets = <<>>
            /\ passLog[k].resets = 0

(* a stale file with a record the rule would have rewritten has failed *)
C1_Witness ==
    \E k \in Passes :
        /\ passLog[k].outcome = "IntegrityCheckFailed"
        /\ pc = "done"
        /\ \E n \in 1..Len(RecordsOf(passLog[k].atOpen)) :
              LET name == RecordsOf(passLog[k].atOpen)[n]
              IN  /\ name \in TextOffsets
                  /\ HasPrefix(passLog[k].atOpen.strings[name])
                  /\ \E m \in Len(srcrootPrefix)..Len(passLog[k].atOpen.strings[name]) :
                        MarkerAt(passLog[k].atOpen.strings[name], m)

(* C2: once validation has succeeded the stored digest equals the hash of  *)
(* the body whenever the loop is about to take the next record and         *)
(* whenever processing of the file has ended, normally or by an error.     *)
C2_DigestFreshAfterValidation ==
    /\ (pc = "loop" /\ passLog[fileIdx].validated) => DigestMatches(disk[CurFile])
    /\ \A k \in Passes :
          (Ended(k) /\ passLog[k].validated) => DigestMatches(passLog[k].atEnd)

(* a pass that set a string and then failed to resolve a later record *)
C2_Witness ==
    \E k \in Passes :
        /\ passLog[k].outcome = "UnresolvedReference"
        /\ passLog[k].validated
        /\ passLog[k].sets # <<>>
        /\ passLog[k].atEnd # passLog[k].atOpen

(* C3: a valid container without a "name.source-file" partition is         *)
(* processed without error, without a set or a reset, and its bytes at the *)
(* end are its bytes at the start.                                         *)
C3_MissingPartitionIsNoError ==
    \A k \in Passes :
        (/\ Ended(k)
         /\ passLog[k].atOpen.exists
         /\ DigestMatches(passLog[k].atOpen)
         /\ ~HasPartition(passLog[k].atOpen)) =>
            /\ passLog[k].outcome = "ok"
            /\ passLog[k].sets = <<>>
            /\ passLog[k].resets = 0
            /\ passLog[k].atEnd = passLog[k].atOpen
            /\ disk[args[k]] = passLog[k].atOpen

(* a run of two such files that has returned EXIT_SUCCESS *)
C3_Witness ==
    /\ pc = "done"
    /\ exitCode = EXIT_SUCCESS
    /\ diagnostic = ""
    /\ Len(args) > 1
    /\ \A k \in Passes :
          /\ passLog[k].outcome = "ok"
          /\ ~HasPartition(passLog[k].atOpen)

(* every string that did not start with the root prefix when the file was  *)
(* opened is the same at the end of the pass                               *)
NonPrefixStringsKept(k) ==
    \A o \in TextOffsets :
        ~HasPrefix(passLog[k].atOpen.strings[o]) =>
            passLog[k].atEnd.strings[o] = passLog[k].atOpen.strings[o]

FoundAndDone(k) ==
    /\ passLog[k].outcome = "ok"
    /\ passLog[k].found = "found"

(* C5 as stated: whenever the partition is found the digest is reset at    *)
(* least once before processing completes normally, for every cardinality  *)
(* including zero, and paths without the root prefix are unchanged.        *)
C5_ResetWheneverPartitionFound ==
    \A k \in Passes :
        FoundAndDone(k) => (passLog[k].resets >= 1 /\ NonPrefixStringsKept(k))

(* C5 amended: whenever the partition is found with at least one record    *)
(* the digest is reset (once per record) before processing completes       *)
(* normally, also when no record's path starts with the root prefix; with  *)
(* no record it is not reset; paths without the root prefix are unchanged. *)
C5_ResetOncePerRecord ==
    \A k \in Passes :
        FoundAndDone(k) =>
            /\ passLog[k].resets = Len(RecordsOf(passLog[k].atOpen))
            /\ NonPrefixStringsKept(k)

(* a pass over records none of which is rewritten, the digest reset *)
C5_Witness ==
    \E k \in Passes :
        /\ FoundAndDone(k)
        /\ passLog[k].sets = <<>>
        /\ passLog[k].resets >= 1
        /\ \E n \in 1..Len(RecordsOf(passLog[k].atOpen)) :
              /\ RecordsOf(passLog[k].atOpen)[n] \in TextOffsets
              /\ ~HasPrefix(passLog[k].atOpen.strings[RecordsOf(passLog[k].atOpen)[n]])

Failed(k) == passLog[k].outcome \notin {"none", "running", "ok"}

(* C6: when file k fails no later file is opened, the exit code is 1 and   *)
(* the files before k keep what their passes wrote; when none fails every  *)
(* file is processed once, in list order, and the exit code is 0.          *)
C6_AbortOnFirstFailure ==
    /\ \A k \in Passes : Failed(k) => (pc = "done" /\ exitCode = EXIT_FAILURE)
    /\ pc = "done" =>
          IF \E k \in Passes : Failed(k)
          THEN /\ exitCode = EXIT_FAILURE
               /\ stderr # ""
               /\ \E k \in Passes :
                     /\ Failed(k)
                     /\ passLog[k].seq = k
                     /\ \A n \in Passes :
                           /\ n < k => /\ passLog[n].outcome = "ok"
                                       /\ passLog[n].seq = n
                                       /\ disk[args[n]] = passLog[n].atEnd
                           /\ n > k => (passLog[n] = NoPass /\ n \notin views)
          ELSE /\ exitCode = EXIT_SUCCESS
               /\ stderr = ""
               /\ \A k \in Passes : passLog[k].outcome = "ok" /\ passLog[k].seq = k

(* the second file failed after the first one's rewrite was completed *)
C6_Witness ==
    /\ pc = "done"
    /\ Len(args) > 1
    /\ Failed(Len(args))
    /\ passLog[1].outcome = "ok"
    /\ passLog[1].sets # <<>>

(* C7: when processing of a file has ended, and so whenever main is about  *)
(* to process the next file or return, no view of a file is still mapped.  *)
C7_ViewsReleased ==
    pc \in {"main", "done"} => views = {}

NoDuplicates(q) == \A m, n \in 1..Len(q) : q[m] = q[n] => m = n

(* C10: within a pass no string is set twice, and a pass over a file that  *)
(* an earlier pass processed completely sets no string and leaves the      *)
(* bytes (strings and digest) as that earlier pass left them.              *)
C10_SecondPassChangesNothing ==
    /\ \A k \in Passes : NoDuplicates(passLog[k].sets)
    /\ \A j, k \in Passes :
          (j < k /\ args[j] = args[k] /\ passLog[j].outcome = "ok" /\ Ended(k)) =>
              /\ passLog[k].outcome = "ok"
              /\ passLog[k].sets = <<>>
              /\ passLog[k].atEnd = passLog[j].atEnd

(* two records naming one rewritten string, and the file processed twice *)
C10_Witness ==
    \E j, k \in Passes :
        /\ j < k
        /\ args[j] = args[k]
        /\ passLog[j].outcome = "ok"
        /\ passLog[k].outcome = "ok"
        /\ Len(passLog[j].sets) = 1
        /\ \E m, n \in 1..Len(RecordsOf(passLog[j].atOpen)) :
              /\ m < n
              /\ RecordsOf(passLog[j].atOpen)[m] = passLog[j].sets[1]
              /\ RecordsOf(passLog[j].atOpen)[n] = passLog[j].sets[1]

----------------------------------------------------------------------------
(* Properties of the rewrite rule *)

RuleApplied == rulePc = "done"

SetCalled == RuleApplied /\ setArg # NotSet

(* the marker occurs at an index at or beyond the end of the root prefix *)
MarkerAfterPrefix(s) == \E k \in Len(srcrootPrefix)..Len(s) : MarkerAt(s, k)

FirstMarkerAfterPrefix(s) ==
    CHOOSE k \in Len(srcrootPrefix)..Len(s) :
        /\ MarkerAt(s, k)
        /\ \A m \in Len(srcrootPrefix)..(k - 1) : ~MarkerAt(s, m)

FirstSepToUnderscore(project) ==
    IF \E n \in 1..Len(project) : project[n] = "\\"
    THEN LET n == CHOOSE n \in 1..Len(project) :
                      /\ project[n] = "\\"
                      /\ \A m \in 1..(n - 1) : project[m] # "\\"
         IN  [project EXCEPT ![n] = "_"]
    ELSE project

(* the result the rule is meant to give for a path with the root prefix    *)
(* and the marker after it                                                 *)
ExpectedRewrite(s) ==
    LET project == SubSeq(s, Len(srcrootPrefix) + 1, FirstMarkerAfterPrefix(s))
        replacement == icachePrefix \o FirstSepToUnderscore(project) \o icacheSuffix
    IN  replacement \o SubSeq(s, Len(replacement) + 1, Len(s))

(* C4: the string passed to set has the length of the resolved string *)
C4_RewriteKeepsLength ==
    SetCalled => Len(setArg) = Len(sourceFileStr)

(* set was called for a path with a project of several characters between *)
(* the root prefix and the marker, and text after the marker               *)
C4_Witness ==
    /\ SetCalled
    /\ MarkerAfterPrefix(sourceFileStr)
    /\ FirstMarkerAfterPrefix(sourceFileStr) > Len(srcrootPrefix) + 1
    /\ Len(sourceFileStr) > FirstMarkerAfterPrefix(sourceFileStr) + Len(publicPath)

(* C8: a path with the root prefix in which the marker does not occur at   *)
(* or beyond the end of the prefix is not passed to set.                   *)
C8_MarkerSearchedAfterPrefix ==
    (RuleApplied /\ HasPrefix(sourceFileStr) /\ ~MarkerAfterPrefix(sourceFileStr)) =>
        setArg = NotSet

(* C9: for a path with the root prefix and the marker after it the string  *)
(* set is replacement followed by the rest of the input, the project being *)
(* the slice between the prefix and the marker.                            *)
C9_RewrittenValue ==
    (RuleApplied /\ HasPrefix(sourceFileStr) /\ MarkerAfterPrefix(sourceFileStr)) =>
        setArg = ExpectedRewrite(sourceFileStr)

====
